---------------------------- MODULE Spec2Model ----------------------------
(***************************************************************************)
(* A model of aiozmq/rpc.py: the client protocol (_ClientProtocol), the    *)
(* server protocol (_ServerProtocol), name dispatch over a handler tree    *)
(* and the two transports that connect a DEALER client to a ROUTER server. *)
(*                                                                         *)
(* Conventions of the encoding                                             *)
(*   - A Python str is a sequence of symbols: "." is the dot, every other  *)
(*     symbol is a dot-free piece of text.  "n.g" is <<"n", ".", "g">>,    *)
(*     "builtins.ValueError" is <<"builtins", ".", "ValueError">>, + is \o.*)
(*   - A Python value is a record [t |-> tag, v |-> content].              *)
(*   - An unsigned 32-bit quantity is a pair <<hi, lo>> of 16-bit halves   *)
(*     (value hi * 65536 + lo); a Python int that has grown to 2^32 is     *)
(*     <<65536, 0>>.                                                       *)
(*   - An operation that may raise returns [ok |-> TRUE, val |-> result]   *)
(*     or [ok |-> FALSE, val |-> the exception].                           *)
(***************************************************************************)
EXTENDS Integers, Sequences, FiniteSets, TLC

(***************************************************************************)
(* Bounds of the model.                                                    *)
(***************************************************************************)
\* call() invocations made on the client protocol
MaxCalls == 2
\* requests the peers send to the server in SpecServer
MaxRequests == 2
\* responses the client's socket receives in SpecClient
MaxResponses == 2
\* length, in symbols, of the names given to dispatch in SpecDispatch
MaxNameLen == 3
\* close() and wait_closed() invocations made on the handles
MaxLifeOps == 3
\* malformed messages the sockets receive
MaxFaults == 2

VARIABLES
    \* _ClientProtocol
    c_transport,    \* self.transport: "None" or "open"
    calls,          \* self.calls: req_id -> index of the future in futures
    counter,        \* self.counter
    error_table,    \* self.error_table: identifier -> exception class
    futures,        \* the futures call() has returned, in order of creation
    c_inbox,        \* messages the client's transport will hand to msg_received
    c_last,         \* how the latest client operation ended
    n_calls,        \* number of call() invocations made so far
    \* _ServerProtocol
    s_transport,    \* self.transport: "None" or "open"
    s_inbox,        \* messages the server's transport will hand to msg_received
    s_futs,         \* the futures msg_received has created, in order of creation
    s_ready,        \* completion callbacks the loop has scheduled (call_soon), FIFO
    written,        \* every message the server gave to transport.write, in order
    invoked,        \* handler functions that were called, with the request
    s_last,         \* how the latest server operation ended
    n_requests,     \* requests the peers have sent (SpecServer)
    n_responses,    \* responses the socket has received (SpecClient)
    \* dispatch as a function of its argument (SpecDispatch)
    d_name,         \* the argument
    d_result,       \* what dispatch returned or raised, NotDispatched before
    \* _BaseProtocol and _RPCServer of each side, and its transport
    done_waiters,   \* self.done_waiters: the waiter futures, "pending" or "done"
    t_state,        \* the transport object: "new", "open", "closing" or "closed"
    teardowns,      \* how many times the transport has begun to close
    l_last,         \* how the latest close() or wait_closed() ended
    n_life,         \* close() and wait_closed() invocations made so far
    n_faults        \* malformed messages received so far

client_vars == <<c_transport, calls, counter, error_table, futures, c_inbox,
                 c_last, n_calls>>
server_vars == <<s_transport, s_inbox, s_futs, s_ready, written, invoked,
                 s_last, n_requests, n_responses>>
dispatch_vars == <<d_name, d_result>>
life_vars == <<done_waiters, t_state, teardowns, l_last, n_life, n_faults>>
vars == <<client_vars, server_vars, dispatch_vars, life_vars>>

(***************************************************************************)
(* Python values, exceptions and results.                                  *)
(***************************************************************************)
Str(s) == [t |-> "str", v |-> s]
Tuple(xs) == [t |-> "tuple", v |-> xs]
List(xs) == [t |-> "list", v |-> xs]
Dict(xs) == [t |-> "dict", v |-> xs]
NoneValue == [t |-> "None", v |-> <<>>]

Ok(x) == [ok |-> TRUE, val |-> x]
Raise(e) == [ok |-> FALSE, val |-> e]

\* an exception object: its class (__name__, __module__) and its args tuple
Exc(cls, module, args) == [cls |-> cls, module |-> module, args |-> args]

\* __name__ of the module
MODULE_NAME == <<"aiozmq", ".", "rpc">>
BUILTINS == <<"builtins">>

\* class GenericError(Error): __init__(self, exc_type, args) passes both to
\* Exception.__init__, so .args == (exc_type, args)
GenericError(exc_type, args) == Exc("GenericError", MODULE_NAME, <<exc_type, args>>)

\* class NotFoundError(Error)
NotFoundError(name) == Exc("NotFoundError", MODULE_NAME, <<Str(name)>>)

\* exceptions of the interpreter raised by the code's own statements
TypeError == Exc("TypeError", BUILTINS, <<>>)
ValueErrorUnpack == Exc("ValueError", BUILTINS, <<>>)
AttributeError == Exc("AttributeError", BUILTINS, <<>>)
AssertionError == Exc("AssertionError", BUILTINS, <<>>)
InvalidStateError == Exc("InvalidStateError", <<"asyncio", ".", "futures">>, <<>>)
StructError == Exc("error", <<"struct">>, <<>>)
UnicodeDecodeError == Exc("UnicodeDecodeError", BUILTINS, <<>>)
UnpackException == Exc("UnpackException", <<"msgpack">>, <<>>)
NoException == Exc("none", <<>>, <<>>)

(***************************************************************************)
(* Unsigned 32-bit arithmetic on <<hi, lo>> pairs.                         *)
(***************************************************************************)
\* c + 1 on a Python int
U32Inc(c) == IF c[2] + 1 < 65536 THEN <<c[1], c[2] + 1>> ELSE <<c[1] + 1, 0>>
\* a > b
U32Gt(a, b) == a[1] > b[1] \/ (a[1] = b[1] /\ a[2] > b[2])
\* 0xffffffff
MAX_ID == <<65535, 65535>>
\* struct format 'L': the value fits 32 bits
U32Fits(c) == c[1] \in 0..65535 /\ c[2] \in 0..65535

(***************************************************************************)
(* str.rpartition and str.split.                                           *)
(***************************************************************************)
\* positions of sep in s
Positions(s, sep) == {i \in 1..Len(s) : s[i] = sep}
Max(S) == CHOOSE x \in S : \A y \in S : y <= x
Min(S) == CHOOSE x \in S : \A y \in S : x <= y

\* s.rpartition(sep): (before, sep, after) around the last sep, or ('', '', s)
rpartition(s, sep) ==
    IF Positions(s, sep) = {} THEN <<<<>>, <<>>, s>>
    ELSE LET i == Max(Positions(s, sep))
         IN  <<SubSeq(s, 1, i - 1), <<sep>>, SubSeq(s, i + 1, Len(s))>>

\* s.split(sep): the pieces between the separators, empty pieces included
RECURSIVE split(_, _)
split(s, sep) ==
    IF Positions(s, sep) = {} THEN <<s>>
    ELSE LET i == Min(Positions(s, sep))
         IN  <<SubSeq(s, 1, i - 1)>> \o split(SubSeq(s, i + 1, Len(s)), sep)

(***************************************************************************)
(* The handler tree served by the server.                                  *)
(*   root          AttrHandler                                             *)
(*     .f          method marked with @method, plain function              *)
(*     .n          AttrHandler                                             *)
(*        .g       method marked with @method, coroutine function          *)
(*        .u       method without the mark                                 *)
(*     .v          an attribute that is neither a handler nor a callable   *)
(***************************************************************************)
NoAttrs == [k \in {} |-> "none"]
Objects ==
    [root |-> [kind |-> "AttrHandler", rpc |-> FALSE, coroutine |-> FALSE,
               attrs |-> (<<"f">> :> "f" @@ <<"n">> :> "ns" @@ <<"v">> :> "val")],
     ns   |-> [kind |-> "AttrHandler", rpc |-> FALSE, coroutine |-> FALSE,
               attrs |-> (<<"g">> :> "g" @@ <<"u">> :> "u")],
     f    |-> [kind |-> "method", rpc |-> TRUE, coroutine |-> FALSE, attrs |-> NoAttrs],
     g    |-> [kind |-> "method", rpc |-> TRUE, coroutine |-> TRUE, attrs |-> NoAttrs],
     u    |-> [kind |-> "method", rpc |-> FALSE, coroutine |-> FALSE, attrs |-> NoAttrs],
     val  |-> [kind |-> "value", rpc |-> FALSE, coroutine |-> FALSE, attrs |-> NoAttrs]]

\* self.handler of the server
RootHandler == "root"

\* isinstance(obj, AbstractHandler): the class defines __getitem__
IsAbstractHandler(obj) == Objects[obj].kind = "AttrHandler"

\* AttrHandler.__getitem__: getattr(self, key), AttributeError -> KeyError
AttrHandler_getitem(obj, key) ==
    IF key \in DOMAIN Objects[obj].attrs
    THEN Ok(Objects[obj].attrs[key])
    ELSE Raise("KeyError")

\* a variant of HasRpcMark with a fault: every callable passes
HasRpcMark_any_callable(obj) == Objects[obj].kind = "method"

\* method(func): func.__rpc__ = {}; hasattr(holder, '__rpc__') afterwards
HasRpcMark(obj) == Objects[obj].rpc

\* asyncio.iscoroutinefunction(func)
IsCoroutineFunction(obj) == Objects[obj].coroutine

(***************************************************************************)
(* _ServerProtocol.dispatch                                                *)
(***************************************************************************)
\* the loop over namespaces.split('.'): Ok(handler) or the NotFoundError
RECURSIVE WalkNamespaces(_, _, _)
WalkNamespaces(handler, parts, name) ==
    IF parts = <<>> THEN Ok(handler)
    ELSE LET r == AttrHandler_getitem(handler, Head(parts))
         IN  IF ~r.ok THEN Raise(NotFoundError(name))
             ELSE IF ~IsAbstractHandler(r.val) THEN Raise(NotFoundError(name))
             ELSE WalkNamespaces(r.val, Tail(parts), name)

\* a variant of LookupMethod with a fault: the error names the last segment
LookupMethod_last_segment(handler, method, name) ==
    LET r == AttrHandler_getitem(handler, method)
    IN  IF ~r.ok THEN Raise(NotFoundError(method))
        ELSE IF HasRpcMark(r.val) THEN Ok(r.val)
        ELSE Raise(NotFoundError(method))

\* the final lookup of `method` on the handler and the test of the mark
LookupMethod(handler, method, name) ==
    LET r == AttrHandler_getitem(handler, method)
    IN  IF ~r.ok THEN Raise(NotFoundError(name))
        ELSE IF HasRpcMark(r.val) THEN Ok(r.val)
        ELSE Raise(NotFoundError(name))

dispatch(name) ==
    IF name = <<>> THEN Raise(NotFoundError(name))
    ELSE LET p == rpartition(name, ".")
             namespaces == p[1]
             method == p[3]
             h == IF namespaces # <<>>
                  THEN WalkNamespaces(RootHandler, split(namespaces, "."), name)
                  ELSE Ok(RootHandler)
         IN  IF ~h.ok THEN h ELSE LookupMethod(h.val, method, name)


(***************************************************************************)
(* The payload serializer (_Packer / _Unpacker of aiozmq.util, over        *)
(* msgpack).  Packed bytes are a record [w |-> wire type, v |-> content];  *)
(* tuples and lists both become arrays, and an array unpacks to a list.    *)
(***************************************************************************)
RECURSIVE Pack(_)
Pack(x) ==
    CASE x.t = "str" -> [w |-> "str", v |-> x.v]
      [] x.t \in {"tuple", "list"} ->
            [w |-> "array", v |-> [i \in DOMAIN x.v |-> Pack(x.v[i])]]
      [] x.t = "dict" -> [w |-> "map", v |-> x.v]
      [] OTHER -> [w |-> "nil", v |-> <<>>]

RECURSIVE Unpack(_)
Unpack(b) ==
    CASE b.w = "str" -> Str(b.v)
      [] b.w = "array" -> List([i \in DOMAIN b.v |-> Unpack(b.v[i])])
      [] b.w = "map" -> Dict(b.v)
      [] OTHER -> NoneValue

(***************************************************************************)
(* Frames.  A message is a sequence of frames; a frame is a record with a  *)
(* field k: "hdr" (bytes made by struct.pack), "utf8" (an encoded str),    *)
(* "msgpack" (bytes made by the packer), "peer" (the routing frame a       *)
(* ROUTER socket puts first).  The timestamp fields of the headers are     *)
(* written by the code and read by nothing but the log; they are left out. *)
(***************************************************************************)
\* self.prefix of the client: REQ_PREFIX.pack(pid % 0x10000, randrange(0x10000))
ClientPrefix == "client-prefix"
\* self.prefix of the server
ServerPrefix == "server-prefix"

\* prefix + REQ_SUFFIX.pack(req_id, time.time()): '=HH' + '=Ld', 16 bytes
ReqHeader(prefix, req_id) ==
    [k |-> "hdr", size |-> 16, prefix |-> prefix, req_id |-> req_id, is_error |-> FALSE]
\* prefix + RESP_SUFFIX.pack(req_id, time.time(), is_error): '=HH' + '=Ld?', 17 bytes
RespHeader(prefix, req_id, is_error) ==
    [k |-> "hdr", size |-> 17, prefix |-> prefix, req_id |-> req_id, is_error |-> is_error]
\* name.encode('utf-8')
Utf8Frame(s) == [k |-> "utf8", s |-> s]
\* self.packer.pack(x)
PackFrame(x) == [k |-> "msgpack", w |-> Pack(x)]
PeerFrame(p) == [k |-> "peer", id |-> p]

\* RESP.unpack(header) succeeds: the frame is 17 bytes
IsRespHeader(fr) == fr.k = "hdr" /\ fr.size = 17
\* REQ.unpack(header) succeeds: the frame is 16 bytes
IsReqHeader(fr) == fr.k = "hdr" /\ fr.size = 16
\* unpacker.feed(frame); unpacker.unpack() succeeds
IsPacked(fr) == fr.k = "msgpack"
\* bname.decode('utf-8') succeeds
IsUtf8(fr) == fr.k = "utf8"

(***************************************************************************)
(* _ClientProtocol                                                         *)
(***************************************************************************)
\* dir(builtins), as far as the model needs it
Builtins ==
    { [name |-> "ValueError", is_type |-> TRUE, is_exception |-> TRUE],
      [name |-> "KeyError", is_type |-> TRUE, is_exception |-> TRUE],
      [name |-> "TypeError", is_type |-> TRUE, is_exception |-> TRUE],
      [name |-> "AttributeError", is_type |-> TRUE, is_exception |-> TRUE],
      [name |-> "KeyboardInterrupt", is_type |-> TRUE, is_exception |-> FALSE],
      [name |-> "int", is_type |-> TRUE, is_exception |-> FALSE],
      [name |-> "len", is_type |-> FALSE, is_exception |-> FALSE] }

\* the table as a set of (identifier, class) pairs; a class is (module, name)
ErrorTableEntries ==
    { <<(BUILTINS \o <<".">>) \o <<b.name>>, <<BUILTINS, b.name>>>> :
          b \in {x \in Builtins : x.is_type /\ x.is_exception} }
    \cup { <<(MODULE_NAME \o <<".">>) \o <<"GenericError">>, <<MODULE_NAME, "GenericError">>>>,
           <<(MODULE_NAME \o <<".">>) \o <<"NotFoundError">>, <<MODULE_NAME, "NotFoundError">>>> }

_fill_error_table ==
    [id \in {e[1] : e \in ErrorTableEntries} |->
        (CHOOSE e \in ErrorTableEntries : e[1] = id)[2]]

\* found(*exc_args): the call of an exception class with positional arguments.
\* GenericError takes exactly (exc_type, args); the others take any number
Construct(class, exc_args) ==
    IF exc_args.t \notin {"list", "tuple"} THEN Raise(TypeError)
    ELSE IF class = <<MODULE_NAME, "GenericError">>
         THEN IF Len(exc_args.v) = 2
              THEN Ok(GenericError(exc_args.v[1], exc_args.v[2]))
              ELSE Raise(TypeError)
         ELSE Ok(Exc(class[2], class[1], exc_args.v))

\* tuple(x)
ToTuple(x) == IF x.t \in {"list", "tuple"} THEN Ok(Tuple(x.v)) ELSE Raise(TypeError)

\* a variant of _translate_error with a fault: args are passed on as received
_translate_error_raw_args(table, exc_type, exc_args) ==
    IF exc_type.t = "str" /\ exc_type.v \in DOMAIN table
    THEN Construct(table[exc_type.v], exc_args)
    ELSE Ok(GenericError(exc_type, exc_args))

_translate_error(table, exc_type, exc_args) ==
    IF exc_type.t \in {"list", "dict"} THEN Raise(TypeError)      \* unhashable key
    ELSE IF exc_type.t = "str" /\ exc_type.v \in DOMAIN table
         THEN Construct(table[exc_type.v], exc_args)
         ELSE LET a == ToTuple(exc_args)
              IN  IF a.ok THEN Ok(GenericError(exc_type, a.val)) ELSE a

\* self._translate_error(*answer): answer spreads into exactly two arguments
TranslateAnswer(table, answer) ==
    IF answer.t \in {"list", "tuple"} /\ Len(answer.v) = 2
    THEN _translate_error(table, answer.v[1], answer.v[2])
    ELSE Raise(TypeError)

\* a variant of _new_id with a fault: the counter is not reset
_new_id_no_wrap(c) ==
    [counter |-> U32Inc(c), header |-> ReqHeader(ClientPrefix, U32Inc(c)),
     req_id |-> U32Inc(c)]

_new_id(c) ==
    LET c1 == U32Inc(c)
        c2 == IF U32Gt(c1, MAX_ID) THEN <<0, 0>> ELSE c1
    IN  [counter |-> c2, header |-> ReqHeader(ClientPrefix, c2), req_id |-> c2]

\* a message of the client's inbox: the frames, and (not part of the message)
\* the server future whose callback wrote it, 0 for a message of another origin
NoMsg == [frames |-> <<>>, origin |-> 0]

\* asyncio.Future(loop=self.loop) as call() registers it; id, name and args
\* record the call it belongs to, by the message that completed it
NewFuture(req_id, name, args) ==
    [state |-> "pending", value |-> NoneValue, id |-> req_id,
     name |-> name, args |-> args, by |-> NoMsg]

\* dict without a key
Remove(d, key) == [x \in DOMAIN d \ {key} |-> d[x]]

\* variants of calls_pop with a fault: the oldest registered call is taken
\* whatever the id / whenever the id is unknown
calls_pop_oldest(cs, req_id) ==
    IF DOMAIN cs = {} THEN 0 ELSE Min({cs[x] : x \in DOMAIN cs})
calls_pop_fallback(cs, req_id) ==
    IF req_id \in DOMAIN cs THEN cs[req_id]
    ELSE IF DOMAIN cs = {} THEN 0 ELSE Min({cs[x] : x \in DOMAIN cs})

\* a variant of calls_pop with a fault: no id is ever found
calls_pop_never(cs, req_id) == 0

\* self.calls.pop(req_id, None): the future's index, 0 for None
calls_pop(cs, req_id) == IF req_id \in DOMAIN cs THEN cs[req_id] ELSE 0

\* Future.set_result / Future.set_exception: only a pending future accepts
set_result(fut, value, msg) ==
    IF fut.state = "pending"
    THEN Ok([fut EXCEPT !.state = "result", !.value = value, !.by = msg])
    ELSE Raise(InvalidStateError)
set_exception(fut, exc, msg) ==
    IF fut.state = "pending"
    THEN Ok([fut EXCEPT !.state = "exception", !.value = exc, !.by = msg])
    ELSE Raise(InvalidStateError)

\* a variant of CanUnpackResponse with a fault: a header of any size passes
CanUnpackResponse_any_header(data) ==
    /\ Len(data) = 2
    /\ data[1].k = "hdr"
    /\ IsPacked(data[2])

\* the try block of msg_received: the two frames, the header, the payload
CanUnpackResponse(data) ==
    /\ Len(data) = 2
    /\ IsRespHeader(data[1])
    /\ IsPacked(data[2])

\* what the latest operation of a protocol did
Last(op, note, raised) == [op |-> op, note |-> note, raised |-> raised]

\* _ClientProtocol.msg_received(data) for the message at the head of the inbox
c_msg_received ==
    /\ c_inbox # <<>>
    /\ c_inbox' = Tail(c_inbox)
    /\ LET msg == Head(c_inbox)
           data == msg.frames
       IN  IF ~CanUnpackResponse(data)
           THEN /\ c_last' = Last("msg_received", "cannot_unpack", NoException)
                /\ UNCHANGED <<calls, futures>>
           ELSE LET req_id == data[1].req_id
                    is_error == data[1].is_error
                    answer == Unpack(data[2].w)
                    call == calls_pop(calls, req_id)
                IN  IF call = 0
                    THEN /\ c_last' = Last("msg_received", "unknown_id", NoException)
                         /\ UNCHANGED <<calls, futures>>
                    ELSE LET exc == TranslateAnswer(error_table, answer)
                             done == IF is_error
                                     THEN IF exc.ok
                                          THEN set_exception(futures[call], exc.val, msg)
                                          ELSE exc
                                     ELSE set_result(futures[call], answer, msg)
                         IN  /\ calls' = Remove(calls, req_id)
                             /\ IF done.ok
                                THEN /\ futures' = [futures EXCEPT ![call] = done.val]
                                     /\ c_last' = Last("msg_received", "completed", NoException)
                                ELSE /\ UNCHANGED futures
                                     /\ c_last' = Last("msg_received", "raised", done.val)
    /\ UNCHANGED <<c_transport, counter, error_table, n_calls>>
    /\ UNCHANGED <<server_vars, dispatch_vars, life_vars>>

\* the client's transport.write(frames): the ROUTER socket of the server
\* receives the frames behind the frame that names the sending peer
ClientPeer == "c1"
ForeignPeer == "c2"

\* _ClientProtocol.call(name, args, kwargs)
call(name, args, kwargs) ==
    /\ n_calls < MaxCalls
    /\ n_calls' = n_calls + 1
    /\ LET bname == Utf8Frame(name)
           bargs == PackFrame(args)
           bkwargs == PackFrame(kwargs)
           new == _new_id(counter)
           req_id == new.req_id
       IN  /\ counter' = new.counter
           /\ IF req_id \in DOMAIN calls
              THEN \* assert req_id not in self.calls
                   /\ c_last' = Last("call", "raised", AssertionError)
                   /\ UNCHANGED <<calls, futures, s_inbox>>
              ELSE /\ futures' = Append(futures, NewFuture(req_id, name, args))
                   /\ calls' = (req_id :> (Len(futures) + 1)) @@ calls
                   /\ IF c_transport = "None"
                      THEN /\ c_last' = Last("call", "raised", AttributeError)
                           /\ UNCHANGED s_inbox
                      ELSE /\ c_last' = Last("call", "written", NoException)
                           /\ s_inbox' = Append(s_inbox,
                                  <<PeerFrame(ClientPeer), new.header, bname, bargs, bkwargs>>)
    /\ UNCHANGED <<c_transport, error_table, c_inbox>>
    /\ UNCHANGED <<s_transport, s_futs, s_ready, written, invoked, s_last,
                   n_requests, n_responses>>
    /\ UNCHANGED <<dispatch_vars, life_vars>>

(***************************************************************************)
(* The handlers of the tree.  f and g are written alike:                   *)
(*     def f(self, x):                                                     *)
(*         if x == 'boom': raise ValueError('boom')                        *)
(*         if x == 'pair': raise KeyError('k', 'v')                        *)
(*         if x == 'user': raise app.MyError('user')                       *)
(*         return x                                                        *)
(* g is a coroutine function, so its body runs in a task.                  *)
(***************************************************************************)
\* func(*args, **kwargs) binds: one positional argument, no keyword
Binds(args, kwargs) ==
    /\ args.t \in {"list", "tuple"}
    /\ Len(args.v) = 1
    /\ kwargs.t = "dict"
    /\ kwargs.v = <<>>

HandlerBody(func, x) ==
    IF x = Str(<<"boom">>)
    THEN Raise(Exc("ValueError", BUILTINS, <<Str(<<"boom">>)>>))
    ELSE IF x = Str(<<"pair">>)
    THEN Raise(Exc("KeyError", BUILTINS, <<Str(<<"k">>), Str(<<"v">>)>>))
    ELSE IF x = Str(<<"user">>)
    THEN Raise(Exc("MyError", <<"app">>, <<Str(<<"user">>)>>))
    ELSE Ok(x)

(***************************************************************************)
(* _ServerProtocol                                                         *)
(***************************************************************************)
\* a future made by msg_received with the (peer, req_id) its callback holds;
\* data (the message as received), name, func and args record the request;
\* state is "running" (a task whose coroutine has not finished), "done"
\* (completed, callback scheduled) or "called_back" (process_call_result has
\* run)
ServerFuture(data, peer, req_id, name, func, args, state, outcome) ==
    [data |-> data, peer |-> peer, req_id |-> req_id, name |-> name, func |-> func,
     args |-> args, state |-> state, outcome |-> outcome]

\* what msg_received(data) does: the exception that escapes it (or none),
\* the future it creates (or none), the handler it calls (or none)
Received(exc, futs, called) == [exc |-> exc, futs |-> futs, called |-> called]

s_receive(data) ==
    IF Len(data) # 5 THEN Received(ValueErrorUnpack, <<>>, {})
    ELSE IF ~IsReqHeader(data[2]) THEN Received(StructError, <<>>, {})
    ELSE IF ~IsUtf8(data[3]) THEN Received(UnicodeDecodeError, <<>>, {})
    ELSE
    LET peer == data[1]
        req_id == data[2].req_id
        name == data[3].s
        func == dispatch(name)
    IN  IF ~func.ok
        THEN Received(NoException,
                 <<ServerFuture(data, peer, req_id, name, "none", NoneValue, "done", func)>>, {})
        ELSE IF ~IsPacked(data[4]) \/ ~IsPacked(data[5])
        THEN Received(UnpackException, <<>>, {})
        ELSE
        LET args == Unpack(data[4].w)
            kwargs == Unpack(data[5].w)
        IN  IF IsCoroutineFunction(func.val)
            THEN IF Binds(args, kwargs)
                 THEN Received(NoException,
                          <<ServerFuture(data, peer, req_id, name, func.val, args, "running",
                                         Ok(NoneValue))>>, {func.val})
                 ELSE Received(TypeError, <<>>, {func.val})
            ELSE IF Binds(args, kwargs)
                 THEN Received(NoException,
                          <<ServerFuture(data, peer, req_id, name, func.val, args, "done",
                                         HandlerBody(func.val, args.v[1]))>>, {func.val})
                 ELSE Received(NoException,
                          <<ServerFuture(data, peer, req_id, name, func.val, args, "done",
                                         Raise(TypeError))>>, {func.val})

\* _ServerProtocol.msg_received(data) for the message at the head of the inbox
s_msg_received ==
    /\ s_inbox # <<>>
    /\ s_inbox' = Tail(s_inbox)
    /\ LET r == s_receive(Head(s_inbox))
           i == Len(s_futs) + 1
       IN  /\ s_futs' = s_futs \o r.futs
           /\ s_ready' = IF r.futs # <<>> /\ r.futs[1].state = "done"
                         THEN Append(s_ready, i) ELSE s_ready
           /\ invoked' = invoked \cup {[rid |-> i, func |-> fn] : fn \in r.called}
           /\ s_last' = IF r.exc = NoException
                        THEN Last("msg_received", "returned", NoException)
                        ELSE Last("msg_received", "raised", r.exc)
    /\ UNCHANGED <<s_transport, written, n_requests, n_responses>>
    /\ UNCHANGED <<client_vars, dispatch_vars, life_vars>>

\* the task made by asyncio.async(func(*args, **kwargs)) finishes: the body of
\* the coroutine returns or raises, and the loop schedules the done callback
task_done(i) ==
    /\ s_futs[i].state = "running"
    /\ s_futs' = [s_futs EXCEPT ![i].state = "done",
                                ![i].outcome = HandlerBody(s_futs[i].func, s_futs[i].args.v[1])]
    /\ s_ready' = Append(s_ready, i)
    /\ UNCHANGED <<s_transport, s_inbox, written, invoked, s_last, n_requests, n_responses>>
    /\ UNCHANGED <<client_vars, dispatch_vars, life_vars>>

\* a variant of exc_info with a fault: the identifier has no module
exc_info_no_module(exc) == Tuple(<<Str(<<exc.cls>>), Tuple(exc.args)>>)

\* (exc_type.__module__ + '.' + exc_type.__name__, exc.args)
exc_info(exc) == Tuple(<<Str((exc.module \o <<".">>) \o <<exc.cls>>), Tuple(exc.args)>>)

\* a variant of ResultFrames with a fault: the header never flags an error
ResultFrames_never_error(outcome, req_id, peer) ==
    IF outcome.ok
    THEN <<peer, RespHeader(ServerPrefix, req_id, FALSE), PackFrame(outcome.val)>>
    ELSE <<peer, RespHeader(ServerPrefix, req_id, FALSE),
           PackFrame(Tuple(<<Str((outcome.val.module \o <<".">>) \o <<outcome.val.cls>>),
                             Tuple(outcome.val.args)>>))>>

\* the message process_call_result gives to transport.write for an outcome
ResultFrames(outcome, req_id, peer) ==
    IF outcome.ok
    THEN <<peer, RespHeader(ServerPrefix, req_id, FALSE), PackFrame(outcome.val)>>
    ELSE <<peer, RespHeader(ServerPrefix, req_id, TRUE), PackFrame(exc_info(outcome.val))>>

\* the ROUTER socket sends a written message to the peer its first frame
\* names, without that frame; only the client's socket is modelled
Routed(inbox, frames, origin) ==
    IF frames[1] = PeerFrame(ClientPeer)
    THEN Append(inbox, [frames |-> Tail(frames), origin |-> origin])
    ELSE inbox

\* _ServerProtocol.process_call_result(fut, req_id=, peer=), run by the loop
\* for the callback at the head of its queue
process_call_result ==
    /\ s_ready # <<>>
    /\ s_ready' = Tail(s_ready)
    /\ LET i == Head(s_ready)
           fut == s_futs[i]
           frames == ResultFrames(fut.outcome, fut.req_id, fut.peer)
       IN  /\ s_futs' = [s_futs EXCEPT ![i].state = "called_back"]
           /\ IF s_transport = "None"
              THEN \* self.transport.write raises in the try block and again
                   \* in the except block
                   /\ s_last' = Last("process_call_result", "raised", AttributeError)
                   /\ UNCHANGED <<written, c_inbox>>
              ELSE /\ s_last' = Last("process_call_result", "written", NoException)
                   /\ written' = Append(written, [rid |-> i, frames |-> frames])
                   /\ c_inbox' = Routed(c_inbox, frames, i)
    /\ UNCHANGED <<s_transport, s_inbox, invoked, n_requests, n_responses>>
    /\ UNCHANGED <<c_transport, calls, counter, error_table, futures, c_last, n_calls>>
    /\ UNCHANGED <<dispatch_vars, life_vars>>

(***************************************************************************)
(* The environment: the application that calls the client, a second peer   *)
(* of the server, and a sender of responses the server never wrote.        *)
(***************************************************************************)
X == Str(<<"x">>)
Y == Str(<<"y">>)
Boom == Str(<<"boom">>)
User == Str(<<"user">>)
Pair == Str(<<"pair">>)

\* rpc.<name>(<arg>) as the application calls it; _MethodCall joins the
\* attribute names with '.' and passes args as a tuple, kwargs as a dict
CallChoices ==
    { [name |-> <<"f">>, args |-> Tuple(<<X>>)],
      [name |-> <<"f">>, args |-> Tuple(<<Boom>>)],
      [name |-> <<"f">>, args |-> Tuple(<<Pair>>)],
      [name |-> <<"n", ".", "g">>, args |-> Tuple(<<X>>)],
      [name |-> <<"n", ".", "g">>, args |-> Tuple(<<Y>>)],
      [name |-> <<"n", ".", "g">>, args |-> Tuple(<<User>>)],
      [name |-> <<"n", ".", "u">>, args |-> Tuple(<<X>>)],
      [name |-> <<"n", ".", "x">>, args |-> Tuple(<<X>>)] }

\* the calls of SpecClient, where no server reads the name
ClientCallChoices ==
    { [name |-> <<"f">>, args |-> Tuple(<<X>>)],
      [name |-> <<"n", ".", "g">>, args |-> Tuple(<<Y>>)] }

Peers == {ClientPeer, ForeignPeer}

\* 0xDEADBEEF
DEADBEEF == <<57005, 48879>>
InjectIds == {<<0, 0>>, <<0, 1>>, <<0, 2>>, DEADBEEF}
InjectPayloads ==
    { [is_error |-> FALSE, answer |-> Str(<<"rogue">>)],
      [is_error |-> TRUE,
       answer |-> Tuple(<<Str(<<"builtins", ".", "KeyError">>), Tuple(<<Str(<<"k">>)>>)>>)],
      [is_error |-> TRUE,
       answer |-> Tuple(<<Str(<<"other", ".", "Failure">>), Tuple(<<Str(<<"k">>)>>)>>)] }

\* a peer of the server sends a well-formed request (SpecServer); both peers
\* use the same req_id, as two clients that have made as many calls do
PeerRequest(peer, c) ==
    /\ n_requests < MaxRequests
    /\ n_requests' = n_requests + 1
    /\ s_inbox' = Append(s_inbox,
           <<PeerFrame(peer), ReqHeader("peer-prefix", <<0, 1>>),
             Utf8Frame(c.name), PackFrame(c.args), PackFrame(Dict(<<>>))>>)
    /\ UNCHANGED <<s_transport, s_futs, s_ready, written, invoked, s_last, n_responses>>
    /\ UNCHANGED <<client_vars, dispatch_vars, life_vars>>

\* a well-formed response arrives on the client's socket (SpecClient)
InjectResponse(req_id, p) ==
    /\ n_responses < MaxResponses
    /\ n_responses' = n_responses + 1
    /\ c_inbox' = Append(c_inbox,
           [frames |-> <<RespHeader(ServerPrefix, req_id, p.is_error), PackFrame(p.answer)>>,
            origin |-> 0])
    /\ UNCHANGED <<c_transport, calls, counter, error_table, futures, c_last, n_calls>>
    /\ UNCHANGED <<s_transport, s_inbox, s_futs, s_ready, written, invoked, s_last,
                   n_requests>>
    /\ UNCHANGED <<dispatch_vars, life_vars>>

(***************************************************************************)
(* Initial states: open_client and start_server have returned, so both     *)
(* protocols are constructed and connection_made has run on each.  The     *)
(* client is either new (counter 0, no call) or has been in use for a long *)
(* time: its counter has reached 0xffffffff and the call that was given    *)
(* req_id 1 is still being served by the coroutine n.g.                    *)
(***************************************************************************)
EmptyCalls == [k \in {} |-> 0]
NotDispatched == Raise(NoException)

InitNew ==
    /\ counter = <<0, 0>>
    /\ calls = EmptyCalls
    /\ futures = <<>>
    /\ s_futs = <<>>
    /\ invoked = {}

InitUsed ==
    /\ counter = MAX_ID
    /\ calls = (<<0, 1>> :> 1)
    /\ futures = <<NewFuture(<<0, 1>>, <<"n", ".", "g">>, Tuple(<<X>>))>>
    /\ s_futs = <<ServerFuture(
                      <<PeerFrame(ClientPeer), ReqHeader(ClientPrefix, <<0, 1>>),
                        Utf8Frame(<<"n", ".", "g">>), PackFrame(Tuple(<<X>>)),
                        PackFrame(Dict(<<>>))>>,
                      PeerFrame(ClientPeer), <<0, 1>>, <<"n", ".", "g">>, "g",
                      List(<<X>>), "running", Ok(NoneValue))>>
    /\ invoked = {[rid |-> 1, func |-> "g"]}

\* the two sides: each has a protocol, a handle and a transport
Sides == {"client", "server"}

\* _BaseProtocol.__init__ and the __init__ of the two protocols
InitProtocol ==
    /\ error_table = _fill_error_table
    /\ c_inbox = <<>>
    /\ c_last = Last("init", "none", NoException)
    /\ n_calls = 0
    /\ s_inbox = <<>>
    /\ s_ready = <<>>
    /\ written = <<>>
    /\ s_last = Last("init", "none", NoException)
    /\ n_requests = 0
    /\ n_responses = 0
    /\ done_waiters = [side \in Sides |-> <<>>]
    /\ teardowns = [side \in Sides |-> 0]
    /\ l_last = Last("init", "none", NoException)
    /\ n_life = 0
    /\ n_faults = 0

InitCommon ==
    /\ InitProtocol
    /\ c_transport = "open"
    /\ s_transport = "open"
    /\ t_state = [side \in Sides |-> "open"]

Init ==
    /\ InitCommon
    /\ InitNew \/ InitUsed
    /\ d_name = <<>>
    /\ d_result = NotDispatched

\* the client and the server, connected
Next ==
    \/ \E c \in CallChoices : call(c.name, c.args, Dict(<<>>))
    \/ c_msg_received
    \/ s_msg_received
    \/ \E i \in DOMAIN s_futs : task_done(i)
    \/ process_call_result

Spec == Init /\ [][Next]_vars

\* the same, with a transport that delivers every message it holds, a loop
\* that runs every callback it has scheduled and coroutines that finish
SpecLive ==
    /\ Spec
    /\ WF_vars(c_msg_received)
    /\ WF_vars(s_msg_received)
    /\ WF_vars(\E i \in DOMAIN s_futs : task_done(i))
    /\ WF_vars(process_call_result)

\* the client protocol and a socket on which any well-formed response may arrive
NextClient ==
    \/ \E c \in ClientCallChoices : call(c.name, c.args, Dict(<<>>))
    \/ c_msg_received
    \/ \E id \in InjectIds, p \in InjectPayloads : InjectResponse(id, p)

SpecClient == Init /\ [][NextClient]_vars

\* the server protocol and two peers that send it well-formed requests
NextServer ==
    \/ \E peer \in Peers, c \in CallChoices : PeerRequest(peer, c)
    \/ s_msg_received
    \/ \E i \in DOMAIN s_futs : task_done(i)
    \/ process_call_result

SpecServer == Init /\ [][NextServer]_vars

(***************************************************************************)
(* dispatch as a function: every name of at most MaxNameLen symbols.       *)
(***************************************************************************)
Symbols == {"f", "n", "g", "u", "v", "x", "."}
Names == UNION {[1..n -> Symbols] : n \in 0..MaxNameLen}

InitDispatch ==
    /\ InitCommon
    /\ InitNew
    /\ d_name \in Names
    /\ d_result = NotDispatched

Dispatch ==
    /\ d_result = NotDispatched
    /\ d_result' = dispatch(d_name)
    /\ UNCHANGED <<d_name, client_vars, server_vars, life_vars>>

NextDispatch == Dispatch

SpecDispatch == InitDispatch /\ [][NextDispatch]_vars

(***************************************************************************)
(* The life of a connection: _BaseProtocol.connection_made and             *)
(* connection_lost, _RPCServer.close and wait_closed (RPCClient inherits   *)
(* both).  The transport is not part of the module; it follows the         *)
(* contract of an asyncio transport: it calls connection_made once, then   *)
(* connection_lost once, after close() or after a failure of the socket,   *)
(* and its close() does nothing on a transport that is already closing.    *)
(***************************************************************************)
\* self.transport of the protocol of a side
ProtoTransport(side) == IF side = "client" THEN c_transport ELSE s_transport

\* self.transport = value on one side; nothing else of the protocols changes
SetTransport(side, value) ==
    /\ c_transport' = IF side = "client" THEN value ELSE c_transport
    /\ s_transport' = IF side = "server" THEN value ELSE s_transport
    /\ UNCHANGED <<calls, counter, error_table, futures, c_inbox, c_last, n_calls>>
    /\ UNCHANGED <<s_inbox, s_futs, s_ready, written, invoked, s_last, n_requests,
                   n_responses>>

\* how close() or wait_closed() of the handle of a side ended
HandleOp(side, op, note, raised) ==
    [side |-> side, op |-> op, note |-> note, raised |-> raised]

\* _BaseProtocol.connection_made(transport)
connection_made(side) ==
    /\ t_state[side] = "new"
    /\ t_state' = [t_state EXCEPT ![side] = "open"]
    /\ SetTransport(side, "open")
    /\ UNCHANGED <<done_waiters, teardowns, l_last, n_life, n_faults>>
    /\ UNCHANGED dispatch_vars

\* for waiter in self.done_waiters: waiter.set_result(None); set_result
\* raises on a waiter that is not pending and the loop stops there
FirstNotPending(ws) == Min({i \in DOMAIN ws : ws[i] # "pending"} \cup {Len(ws) + 1})
Released(ws) == [i \in DOMAIN ws |-> IF i < FirstNotPending(ws) THEN "done" ELSE ws[i]]

\* _BaseProtocol.connection_lost(exc), called by the transport after close()
\* or when the socket fails
connection_lost(side) ==
    /\ t_state[side] \in {"open", "closing"}
    /\ t_state' = [t_state EXCEPT ![side] = "closed"]
    /\ teardowns' = IF t_state[side] = "open"
                    THEN [teardowns EXCEPT ![side] = @ + 1] ELSE teardowns
    /\ SetTransport(side, "None")
    /\ done_waiters' = [done_waiters EXCEPT ![side] = Released(@)]
    /\ l_last' = IF FirstNotPending(done_waiters[side]) > Len(done_waiters[side])
                 THEN HandleOp(side, "connection_lost", "released", NoException)
                 ELSE HandleOp(side, "connection_lost", "raised", InvalidStateError)
    /\ UNCHANGED <<n_life, n_faults>>
    /\ UNCHANGED dispatch_vars

\* the runtime cancels a task that is suspended in wait_closed(): the waiter
\* it yields from is cancelled; nothing takes it out of self.done_waiters
cancel_waiter(side, i) ==
    /\ done_waiters[side][i] = "pending"
    /\ done_waiters' = [done_waiters EXCEPT ![side][i] = "cancelled"]
    /\ UNCHANGED <<t_state, teardowns, l_last, n_life, n_faults>>
    /\ UNCHANGED <<client_vars, server_vars, dispatch_vars>>

\* a variant of _RPCServer_close with a fault: no test of the transport
_RPCServer_close_unguarded(transport) ==
    IF transport = "None" THEN "raise" ELSE "transport.close"

\* the body of _RPCServer.close for a value of self._proto.transport
_RPCServer_close(transport) ==
    IF transport = "None" THEN "return" ELSE "transport.close"

\* transport.close() of the transport of a side
TransportClose(side) ==
    /\ t_state' = IF t_state[side] = "open"
                  THEN [t_state EXCEPT ![side] = "closing"] ELSE t_state
    /\ teardowns' = IF t_state[side] = "open"
                    THEN [teardowns EXCEPT ![side] = @ + 1] ELSE teardowns

\* _RPCServer.close() on the handle of a side; the handle exists once
\* open_client / start_server has returned, that is after connection_made
close(side) ==
    /\ t_state[side] # "new"
    /\ n_life < MaxLifeOps
    /\ n_life' = n_life + 1
    /\ LET body == _RPCServer_close(ProtoTransport(side))
       IN  CASE body = "return" ->
                   /\ l_last' = HandleOp(side, "close", "nothing", NoException)
                   /\ UNCHANGED <<t_state, teardowns>>
             [] body = "raise" ->
                   /\ l_last' = HandleOp(side, "close", "raised", AttributeError)
                   /\ UNCHANGED <<t_state, teardowns>>
             [] OTHER ->
                   /\ l_last' = HandleOp(side, "close", "transport.close", NoException)
                   /\ TransportClose(side)
    /\ UNCHANGED <<done_waiters, n_faults>>
    /\ UNCHANGED <<client_vars, server_vars, dispatch_vars>>

\* the body of _RPCServer.wait_closed up to its yield from
_RPCServer_wait_closed(transport) ==
    IF transport = "None" THEN "return" ELSE "wait"

\* _RPCServer.wait_closed() on the handle of a side, run up to the point
\* where it returns or suspends on its waiter
wait_closed(side) ==
    /\ t_state[side] # "new"
    /\ n_life < MaxLifeOps
    /\ n_life' = n_life + 1
    /\ IF _RPCServer_wait_closed(ProtoTransport(side)) = "return"
       THEN /\ l_last' = HandleOp(side, "wait_closed", "returned", NoException)
            /\ UNCHANGED done_waiters
       ELSE /\ l_last' = HandleOp(side, "wait_closed", "suspended", NoException)
            /\ done_waiters' = [done_waiters EXCEPT ![side] = Append(@, "pending")]
    /\ UNCHANGED <<t_state, teardowns, n_faults>>
    /\ UNCHANGED <<client_vars, server_vars, dispatch_vars>>

\* the two protocols as constructed, before their transports call
\* connection_made
InitLifecycle ==
    /\ InitProtocol
    /\ InitNew
    /\ c_transport = "None"
    /\ s_transport = "None"
    /\ t_state = [side \in Sides |-> "new"]
    /\ d_name = <<>>
    /\ d_result = NotDispatched

\* the handles of the two sides and their transports
NextLifecycle ==
    \/ \E side \in Sides : connection_made(side)
    \/ \E side \in Sides : close(side)
    \/ \E side \in Sides : wait_closed(side)
    \/ \E side \in Sides : connection_lost(side)
    \/ \E side \in Sides : \E i \in DOMAIN done_waiters[side] : cancel_waiter(side, i)

SpecLifecycle == InitLifecycle /\ [][NextLifecycle]_vars

(***************************************************************************)
(* The client while its connection ends: the application goes on calling,  *)
(* the transport hands over messages only while it is open.                *)
(***************************************************************************)
\* the transport of a side calls msg_received only while it is open
Delivers(side) == t_state[side] = "open"

\* the responses the server sends in this setting: results, for two ids
LifeIds == {<<0, 0>>, <<0, 1>>}
LifePayloads == {[is_error |-> FALSE, answer |-> Str(<<"rogue">>)]}

NextClientLife ==
    \/ \E c \in ClientCallChoices : call(c.name, c.args, Dict(<<>>))
    \/ Delivers("client") /\ c_msg_received
    \/ \E id \in LifeIds, p \in LifePayloads : InjectResponse(id, p)
    \/ connection_lost("client")

SpecClientLife == Init /\ [][NextClientLife]_vars

(***************************************************************************)
(* The client when the runtime cancels futures that call() has returned.   *)
(***************************************************************************)
\* Future.cancel() on the k-th future of the client; call() attaches no
\* callback to the future, so the registry keeps its entry
cancel(k) ==
    /\ futures[k].state = "pending"
    /\ futures' = [futures EXCEPT ![k].state = "cancelled"]
    /\ UNCHANGED <<c_transport, calls, counter, error_table, c_inbox, c_last, n_calls>>
    /\ UNCHANGED <<server_vars, dispatch_vars, life_vars>>

NextClientCancel ==
    \/ \E c \in ClientCallChoices : call(c.name, c.args, Dict(<<>>))
    \/ \E k \in DOMAIN futures : cancel(k)
    \/ \E id \in LifeIds, p \in InjectPayloads : InjectResponse(id, p)
    \/ c_msg_received

SpecClientCancel == Init /\ [][NextClientCancel]_vars

(***************************************************************************)
(* The client when its socket receives messages that are not responses as *)
(* the server writes them: a wrong number of frames, a header of the wrong *)
(* size, a payload that is not the packer's, and error responses whose     *)
(* payload is not an (identifier, args) the error table can build from.    *)
(***************************************************************************)
\* bytes that are neither a header nor the packer's
Garbage == [k |-> "garbage"]

MalformedFrames(id) ==
    { <<RespHeader(ServerPrefix, id, FALSE)>>,
      <<RespHeader(ServerPrefix, id, FALSE), PackFrame(Str(<<"rogue">>)),
        PackFrame(Str(<<"rogue">>))>>,
      <<ReqHeader(ServerPrefix, id), PackFrame(Str(<<"rogue">>))>>,
      <<RespHeader(ServerPrefix, id, FALSE), Garbage>> }

\* three elements; one argument for GenericError; args that is None, for a
\* listed and for an unlisted identifier
BadErrorPayloads ==
    { Tuple(<<Str(<<"builtins", ".", "ValueError">>), Tuple(<<>>), Str(<<"extra">>)>>),
      Tuple(<<Str(<<"aiozmq", ".", "rpc", ".", "GenericError">>), Tuple(<<Str(<<"k">>)>>)>>),
      Tuple(<<Str(<<"builtins", ".", "ValueError">>), NoneValue>>),
      Tuple(<<Str(<<"other", ".", "Failure">>), NoneValue>>) }

MalformedErrors(id) ==
    { <<RespHeader(ServerPrefix, id, TRUE), PackFrame(p)>> : p \in BadErrorPayloads }

\* such a message arrives on the client's socket
InjectFault(frames) ==
    /\ n_faults < MaxFaults
    /\ n_faults' = n_faults + 1
    /\ c_inbox' = Append(c_inbox, [frames |-> frames, origin |-> 0])
    /\ UNCHANGED <<c_transport, calls, counter, error_table, futures, c_last, n_calls>>
    /\ UNCHANGED <<done_waiters, t_state, teardowns, l_last, n_life>>
    /\ UNCHANGED <<server_vars, dispatch_vars>>

NextClientFaults ==
    \/ \E c \in ClientCallChoices : call(c.name, c.args, Dict(<<>>))
    \/ \E id \in LifeIds : \E frames \in MalformedFrames(id) \cup MalformedErrors(id) :
          InjectFault(frames)
    \/ c_msg_received

SpecClientFaults == Init /\ [][NextClientFaults]_vars

(***************************************************************************)
(* The server when a peer sends messages that are not requests as the      *)
(* client writes them, and when its connection ends while handlers run.    *)
(***************************************************************************)
ServerLifeChoices ==
    { [name |-> <<"f">>, args |-> Tuple(<<X>>)],
      [name |-> <<"n", ".", "g">>, args |-> Tuple(<<X>>)],
      [name |-> <<"n", ".", "g">>, args |-> Tuple(<<Boom>>)] }

\* four frames; a header of 17 bytes; a name, args, kwargs that cannot be
\* decoded
MalformedRequests ==
    LET peer == PeerFrame(ForeignPeer)
        header == ReqHeader("peer-prefix", <<0, 1>>)
        bname == Utf8Frame(<<"f">>)
        bargs == PackFrame(Tuple(<<X>>))
        bkwargs == PackFrame(Dict(<<>>))
    IN  { <<peer, header, bname, bargs>>,
          <<peer, RespHeader("peer-prefix", <<0, 1>>, FALSE), bname, bargs, bkwargs>>,
          <<peer, header, Garbage, bargs, bkwargs>>,
          <<peer, header, bname, Garbage, bkwargs>>,
          <<peer, header, bname, bargs, Garbage>> }

\* such a message arrives on the server's socket
MalformedRequest(frames) ==
    /\ n_faults < MaxFaults
    /\ n_faults' = n_faults + 1
    /\ s_inbox' = Append(s_inbox, frames)
    /\ UNCHANGED <<s_transport, s_futs, s_ready, written, invoked, s_last, n_requests,
                   n_responses>>
    /\ UNCHANGED <<done_waiters, t_state, teardowns, l_last, n_life>>
    /\ UNCHANGED <<client_vars, dispatch_vars>>

\* the server and a peer that sends requests and malformed messages
NextServerFaults ==
    \/ PeerRequest(ForeignPeer, [name |-> <<"f">>, args |-> Tuple(<<X>>)])
    \/ \E frames \in MalformedRequests : MalformedRequest(frames)
    \/ s_msg_received
    \/ \E i \in DOMAIN s_futs : task_done(i)
    \/ process_call_result

SpecServerFaults == Init /\ [][NextServerFaults]_vars

\* the server, a peer that sends requests, and the end of the connection
NextServerLife ==
    \/ \E c \in ServerLifeChoices : Delivers("server") /\ PeerRequest(ForeignPeer, c)
    \/ Delivers("server") /\ s_msg_received
    \/ \E i \in DOMAIN s_futs : task_done(i)
    \/ process_call_result
    \/ connection_lost("server")

SpecServerLife == Init /\ [][NextServerLife]_vars

(***************************************************************************)
(* Properties.                                                             *)
(***************************************************************************)
\* a step of the client's msg_received: it takes the head of the inbox
ClientReceives == c_inbox # <<>> /\ c_inbox' = Tail(c_inbox)
\* the message such a step handles, and the fields of a well-formed one
Handled == Head(c_inbox).frames
WellFormedResponse(data) ==
    Len(data) = 2 /\ data[1].k = "hdr" /\ data[1].size = 17 /\ data[2].k = "msgpack"
PendingFutures == {k \in DOMAIN futures : futures[k].state = "pending"}

\* C1: when msg_received handles a well-formed response that is not an error,
\* the pending future of the call that was allocated the response's req_id is
\* resolved with the value the response carries, and no other future changes,
\* whatever the order in which responses arrive.
C1_ResponseMatching ==
    [][(ClientReceives /\ WellFormedResponse(Handled) /\ ~Handled[1].is_error)
        => \A k \in DOMAIN futures :
              IF futures[k].state = "pending" /\ futures[k].id = Handled[1].req_id
              THEN /\ futures'[k].state = "result"
                   /\ futures'[k].value = Unpack(Handled[2].w)
              ELSE /\ futures'[k].state = futures[k].state
                   /\ futures'[k].value = futures[k].value]_vars

\* a later call has its result while an earlier call is still pending
C1_Witness ==
    \E j, k \in DOMAIN futures :
        /\ j < k
        /\ futures[j].state = "pending"
        /\ futures[k].state = "result"
        /\ futures[k].by.frames[1].req_id = futures[k].id

\* C2: call() never allocates a req_id that is a key of the registry: its
\* assertion never fails, and no two pending futures have the same req_id.
C2_IdsNeverCollide ==
    /\ c_last.raised # AssertionError
    /\ \A j, k \in PendingFutures : futures[j].id = futures[k].id => j = k

\* C3: every call() moves the counter to the previous value plus one, to 0
\* from 0xffffffff, the counter stays within 32 bits, and the id of the
\* registered future and of the written header is the new counter value.
C3_IdCounter ==
    [][n_calls' # n_calls
        => /\ counter'[1] \in 0..65535
           /\ counter'[2] \in 0..65535
           /\ IF counter = <<65535, 65535>>
              THEN counter' = <<0, 0>>
              ELSE (counter'[1] - counter[1]) * 65536 + (counter'[2] - counter[2]) = 1
           /\ Len(futures') > Len(futures)
                => /\ futures'[Len(futures')].id = counter'
                   /\ s_inbox'[Len(s_inbox')][2].req_id = counter']_vars

\* the counter has wrapped and a call was registered under id 0
C3_Witness ==
    /\ counter = <<0, 0>>
    /\ n_calls > 0
    /\ \E k \in DOMAIN futures : futures[k].id = <<0, 0>>

\* C4: when msg_received handles a well-formed response whose req_id is not
\* a key of the registry, it raises nothing and leaves the registry and every
\* future as they were.
C4_UnmatchedDrop ==
    [][(ClientReceives /\ WellFormedResponse(Handled)
            /\ Handled[1].req_id \notin DOMAIN calls)
        => /\ calls' = calls
           /\ futures' = futures
           /\ c_last'.op = "msg_received"
           /\ c_last'.raised = NoException]_vars

\* a response with an unknown id has been dropped while a call is pending
C4_Witness ==
    /\ c_last.op = "msg_received"
    /\ c_last.note = "unknown_id"
    /\ PendingFutures # {}

\* the shape of the payload of an error response: (identifier, args)
WellFormedError(answer) ==
    /\ answer.t = "list"
    /\ Len(answer.v) = 2
    /\ answer.v[1].t = "str"
    /\ answer.v[2].t = "list"

\* the error classes of builtins that a handler can raise
StandardErrors == {b.name : b \in {x \in Builtins : x.is_type /\ x.is_exception}}

\* C5: when a handler raises a standard error E(args), the response written
\* for the request carries ("builtins.<E>", args) with is_error set, and the
\* future of the call that made the request is rejected with an error of
\* class E whose args are the same.
C5_KnownErrorRoundTrip ==
    \A k \in DOMAIN futures :
        LET i == futures[k].by.origin
        IN  (/\ futures[k].state # "pending"
             /\ i > 0
             /\ s_futs[i].func # "none"
             /\ ~s_futs[i].outcome.ok
             /\ s_futs[i].outcome.val.module = <<"builtins">>
             /\ s_futs[i].outcome.val.cls \in StandardErrors)
            => LET e == s_futs[i].outcome.val
               IN  /\ s_futs[i].data[2].req_id = futures[k].id
                   /\ s_futs[i].name = futures[k].name
                   /\ futures[k].by.frames[1].is_error
                   /\ Unpack(futures[k].by.frames[2].w)
                        = List(<<Str(<<"builtins", ".", e.cls>>), List(e.args)>>)
                   /\ futures[k].state = "exception"
                   /\ futures[k].value
                        = [cls |-> e.cls, module |-> <<"builtins">>, args |-> e.args]

\* a call to f('boom') has been rejected with ValueError('boom') and a call
\* to f('pair') with KeyError('k', 'v')
C5_Witness ==
    /\ \E k \in DOMAIN futures :
          /\ futures[k].state = "exception"
          /\ futures[k].by.origin > 0
          /\ futures[k].value.cls = "ValueError"
          /\ futures[k].value.args = <<Str(<<"boom">>)>>
    /\ \E k \in DOMAIN futures :
          /\ futures[k].state = "exception"
          /\ futures[k].by.origin > 0
          /\ futures[k].value.cls = "KeyError"
          /\ futures[k].value.args = <<Str(<<"k">>), Str(<<"v">>)>>

\* C6: when msg_received handles an error response (identifier, args) whose
\* identifier is not a key of the error table, the pending future of the call
\* with the response's req_id is rejected with
\* GenericError(identifier, tuple(args)); no step changes the error table.
C6_UnknownErrorKind ==
    [][/\ error_table' = error_table
       /\ (/\ ClientReceives
           /\ WellFormedResponse(Handled)
           /\ Handled[1].is_error
           /\ WellFormedError(Unpack(Handled[2].w))
           /\ Unpack(Handled[2].w).v[1].v \notin DOMAIN error_table)
          => \A k \in DOMAIN futures :
                (futures[k].state = "pending" /\ futures[k].id = Handled[1].req_id)
                => /\ futures'[k].state = "exception"
                   /\ futures'[k].value
                        = [cls |-> "GenericError",
                           module |-> <<"aiozmq", ".", "rpc">>,
                           args |-> <<Unpack(Handled[2].w).v[1],
                                      Tuple(Unpack(Handled[2].w).v[2].v)>>]]_vars

\* a call has been rejected with GenericError('other.Failure', ('k',))
C6_Witness ==
    \E k \in DOMAIN futures :
        /\ futures[k].state = "exception"
        /\ futures[k].value.cls = "GenericError"
        /\ futures[k].value.args
             = <<Str(<<"other", ".", "Failure">>), Tuple(<<Str(<<"k">>)>>)>>

(***************************************************************************)
(* What the handler tree exposes, read off the tree itself: a path is a    *)
(* sequence of keys; it resolves when every key is found on the object the *)
(* keys before it resolve to, which must then be a handler.                *)
(***************************************************************************)
Keys == {<<"f">>, <<"n">>, <<"g">>, <<"u">>, <<"v">>, <<"x">>}
Paths == UNION {[1..n -> Keys] : n \in 1..3}

RECURSIVE Resolve(_, _)
Resolve(obj, path) ==
    IF path = <<>> THEN obj
    ELSE IF Objects[obj].kind = "AttrHandler" /\ Head(path) \in DOMAIN Objects[obj].attrs
         THEN Resolve(Objects[obj].attrs[Head(path)], Tail(path))
         ELSE "missing"

RECURSIVE Dotted(_)
Dotted(path) ==
    IF Len(path) = 1 THEN path[1] ELSE (path[1] \o <<".">>) \o Dotted(Tail(path))

\* paths that end on a callable with the mark, on one without it, nowhere
EndpointPaths ==
    {p \in Paths : Resolve("root", p) # "missing" /\ Objects[Resolve("root", p)].rpc}
UnmarkedPaths ==
    {p \in Paths : /\ Resolve("root", p) # "missing"
                   /\ Objects[Resolve("root", p)].kind = "method"
                   /\ ~Objects[Resolve("root", p)].rpc}
AbsentPaths == {p \in Paths : Resolve("root", p) = "missing"}
EndpointNames == {Dotted(p) : p \in EndpointPaths}
UnmarkedNames == {Dotted(p) : p \in UnmarkedPaths}
AbsentNames == {Dotted(p) : p \in AbsentPaths}

NotFound(name) ==
    [ok |-> FALSE,
     val |-> [cls |-> "NotFoundError", module |-> <<"aiozmq", ".", "rpc">>,
              args |-> <<Str(name)>>]]

\* C7: dispatch(name) returns a callable only if name is the dotted join of
\* a path of the tree that ends on a marked callable, and it is then that
\* callable; for every other name it raises NotFoundError(name).
C7_DispatchLocality ==
    d_result # NotDispatched
    => IF d_name \in EndpointNames
       THEN \E p \in EndpointPaths :
               d_name = Dotted(p) /\ d_result = [ok |-> TRUE, val |-> Resolve("root", p)]
       ELSE d_result = NotFound(d_name)

\* the messages the server wrote from the callback of its i-th future
WrittenFor(i) == {j \in DOMAIN written : written[j].rid = i}

\* C8: a function without the __rpc__ mark is never called, and a request
\* that names one gets what a request for an absent name gets: dispatch raises
\* NotFoundError(name) and no handler runs.
C8_EndpointGating ==
    /\ \A c \in invoked : Objects[c.func].rpc
    /\ \A i \in DOMAIN s_futs :
          s_futs[i].name \in UnmarkedNames \cup AbsentNames
          => /\ s_futs[i].outcome = NotFound(s_futs[i].name)
             /\ s_futs[i].func = "none"
             /\ s_futs[i].state # "running"
             /\ \A c \in invoked : c.rid # i

\* the server has answered a request for n.u, the method without the mark
C8_Witness ==
    \E i \in DOMAIN s_futs :
        /\ s_futs[i].name = <<"n", ".", "u">>
        /\ s_futs[i].state = "called_back"
        /\ WrittenFor(i) # {}

\* C9: for a request whose name dispatch does not resolve, no handler is
\* called, the callback writes one response, to the peer and with the req_id
\* of the request and with is_error set, and the client rejects the future of
\* the call with NotFoundError(<the full name>).
C9_NotFoundResponse ==
    /\ \A i \in DOMAIN s_futs :
          ~dispatch(s_futs[i].name).ok
          => /\ \A c \in invoked : c.rid # i
             /\ s_futs[i].state \in {"done", "called_back"}
             /\ s_futs[i].state = "called_back" => Cardinality(WrittenFor(i)) = 1
             /\ s_futs[i].state = "done" => WrittenFor(i) = {}
             /\ \A j \in WrittenFor(i) :
                   /\ written[j].frames[1] = s_futs[i].data[1]
                   /\ written[j].frames[2].req_id = s_futs[i].data[2].req_id
                   /\ written[j].frames[2].is_error
    /\ \A k \in DOMAIN futures :
          (~dispatch(futures[k].name).ok /\ futures[k].state # "pending")
          => /\ futures[k].state = "exception"
             /\ futures[k].value = NotFound(futures[k].name).val

\* the call rpc.n.x('x') has been rejected
C9_Witness ==
    \E k \in DOMAIN futures :
        /\ futures[k].name = <<"n", ".", "x">>
        /\ futures[k].state = "exception"
        /\ futures[k].value.args = <<Str(<<"n", ".", "x">>)>>

C11_LostRejectsPending ==
    [][(c_transport = "open" /\ c_transport' = "None")
        => \A id \in DOMAIN calls :
              futures[calls[id]].state = "pending"
              => futures'[calls[id]].state = "exception"]_vars

\* a step in which wait_closed() runs on the handle of a side
WaitClosedStep(side) ==
    /\ n_life' # n_life
    /\ l_last'.op = "wait_closed"
    /\ l_last'.side = side

\* C12: a waiter of wait_closed is released (its result set) only once
\* connection_lost has run on its side; once connection_lost has run, no
\* waiter of the side, however many there are, is left pending;
\* wait_closed() on a cleared transport returns at once and registers no
\* waiter, on an open transport it registers one pending waiter and suspends.
C12_WaitClosed ==
    /\ [](\A side \in Sides :
            /\ (\E i \in DOMAIN done_waiters[side] : done_waiters[side][i] = "done")
                 => t_state[side] = "closed" /\ ProtoTransport(side) = "None"
            /\ t_state[side] = "closed"
                 => \A i \in DOMAIN done_waiters[side] : done_waiters[side][i] # "pending")
    /\ [][\A side \in Sides :
            WaitClosedStep(side)
            => /\ l_last'.raised = NoException
               /\ IF ProtoTransport(side) = "None"
                  THEN /\ l_last'.note = "returned"
                       /\ done_waiters' = done_waiters
                  ELSE /\ l_last'.note = "suspended"
                       /\ done_waiters'
                            = [done_waiters EXCEPT ![side] = Append(@, "pending")]]_vars

\* a step in which close() runs on the handle of a side
CloseStep(side) ==
    /\ n_life' # n_life
    /\ l_last'.op = "close"
    /\ l_last'.side = side

C14_CancelledIsUnmatched ==
    [][/\ \A id \in DOMAIN calls :
            futures[calls[id]].state = "cancelled"
            => \/ id \in DOMAIN calls' /\ calls'[id] = calls[id]
               \/ ClientReceives /\ WellFormedResponse(Handled) /\ Handled[1].req_id = id
       /\ (/\ ClientReceives
           /\ WellFormedResponse(Handled)
           /\ Handled[1].req_id \in DOMAIN calls
           /\ futures[calls[Handled[1].req_id]].state = "cancelled")
          => /\ c_last'.op = "msg_received"
             /\ c_last'.raised = NoException
             /\ futures' = futures]_vars

\* C15: when msg_received handles a message that is not two frames, or whose
\* header or payload cannot be decoded, it raises nothing and leaves the
\* registry and every future as they were.
C15_MalformedResponse ==
    [][(ClientReceives /\ ~WellFormedResponse(Handled))
        => /\ c_last'.op = "msg_received"
           /\ c_last'.raised = NoException
           /\ calls' = calls
           /\ futures' = futures]_vars

\* a message that could not be unpacked has been dropped while a call is
\* registered and pending
C15_Witness ==
    /\ c_last = Last("msg_received", "cannot_unpack", NoException)
    /\ \E id \in DOMAIN calls : futures[calls[id]].state = "pending"

\* a step of the server's msg_received, the message it handles, and the
\* shape of a request whose five frames can all be decoded
ServerReceives == s_inbox # <<>> /\ s_inbox' = Tail(s_inbox)
WellFormedRequest(data) ==
    /\ Len(data) = 5
    /\ data[2].k = "hdr" /\ data[2].size = 16
    /\ data[3].k = "utf8"
    /\ data[4].k = "msgpack"
    /\ data[5].k = "msgpack"

\* C16: when the server's msg_received handles a message that is not five
\* frames, or whose header, name, args or kwargs cannot be decoded, no
\* exception escapes it and no handler is called.
C16_MalformedRequest ==
    [][(ServerReceives /\ ~WellFormedRequest(Head(s_inbox)))
        => /\ s_last'.op = "msg_received"
           /\ s_last'.raised = NoException
           /\ invoked' = invoked]_vars

C18_PoppedIsCompleted ==
    [][ClientReceives
        => \A id \in DOMAIN calls :
              id \notin DOMAIN calls' => futures'[calls[id]].state # "pending"]_vars

\* C19: a call() that raises leaves the registry as it was: it adds no entry
\* for the id it allocated, in particular when self.transport is None.
C19_FailedCallNotRegistered ==
    [][(n_calls' # n_calls /\ c_last'.raised # NoException)
        => calls' = calls]_vars

\* a step in which the loop runs the completion callback at the head of its
\* queue
CallbackRuns == s_ready # <<>> /\ s_ready' = Tail(s_ready)

\* C20: a completion callback that runs after connection_lost raises nothing
\* and writes nothing.
C20_CallbackAfterLost ==
    [][(CallbackRuns /\ s_transport = "None")
        => /\ s_last'.op = "process_call_result"
           /\ s_last'.raised = NoException
           /\ written' = written]_vars

=============================================================================
